---- MODULE Spec2Model ----
(***************************************************************************)
(* Model of scripts/markets.py: the ticker resolver trova_prezzo_robusto   *)
(* and the command-line entry point that calls it.                         *)
(*                                                                         *)
(* Python strings are modelled as sequences of Unicode code points, so     *)
(* that str.upper, str.strip, concatenation and the substring test "in"    *)
(* are computed character by character.  The quote provider (yfinance) is  *)
(* the environment: every history request and every metadata request picks *)
(* its answer nondeterministically.                                        *)
(***************************************************************************)
EXTENDS Naturals, Sequences, FiniteSets

VARIABLES
    pc,               \* position: "start", "loop", "done", "raised"
    via,              \* how the resolver was entered: "none", "main", "call"
    raw,              \* the text typed at the prompt, or the argument of a direct call
    ticker_input,     \* parameter of trova_prezzo_robusto
    possibili_ticker, \* the candidate list
    idx,              \* position of the for loop in possibili_ticker (1-based)
    hist_log,         \* every etf.history call so far, with its answer
    info_log,         \* every etf.info access so far, with its answer
    result,           \* the returned dictionary
    exc,              \* the exception that left trova_prezzo_robusto, if any
    stdout            \* the encoding and the error handler of the standard streams

vars == <<pc, via, raw, ticker_input, possibili_ticker, idx, hist_log, info_log,
          result, exc, stdout>>

----------------------------------------------------------------------------
(* Bounds of the model *)

\* largest number of daily bars a history answer holds
MaxBars == 2
\* largest number of null long names the provider sends during one lookup
MaxNullNames == 1

----------------------------------------------------------------------------
(* Python values *)

PyStr(s)  == [type |-> "str", val |-> s]
PyNone    == [type |-> "NoneType", val |-> <<>>]
\* a key the dictionary does not hold
PyAbsent  == [type |-> "absent", val |-> <<>>]

\* A character is its Unicode code point; a string is a sequence of them.

\* the characters for which str.isspace is true
Whitespace ==
    {9, 10, 11, 12, 13, 28, 29, 30, 31, 32, 133, 160, 5760,
     8192, 8193, 8194, 8195, 8196, 8197, 8198, 8199, 8200,
     8201, 8202, 8232, 8233, 8239, 8287, 12288}

\* str.upper of one character that maps to one character, code points from
\* 128 on: <<first, last, step, upper of first>>; the characters first,
\* first + step, ..., last map to consecutive code points
UpperRanges ==
    <<
      <<181,181,1,924>>, <<224,246,1,192>>, <<248,254,1,216>>, <<255,255,1,376>>,
      <<257,303,2,256>>, <<305,305,1,73>>, <<307,311,2,306>>, <<314,328,2,313>>,
      <<331,375,2,330>>, <<378,382,2,377>>, <<383,383,1,83>>, <<384,384,1,579>>,
      <<387,389,2,386>>, <<392,392,1,391>>, <<396,396,1,395>>, <<402,402,1,401>>,
      <<405,405,1,502>>, <<409,409,1,408>>, <<410,410,1,573>>, <<414,414,1,544>>,
      <<417,421,2,416>>, <<424,424,1,423>>, <<429,429,1,428>>, <<432,432,1,431>>,
      <<436,438,2,435>>, <<441,441,1,440>>, <<445,445,1,444>>, <<447,447,1,503>>,
      <<453,453,1,452>>, <<454,454,1,452>>, <<456,456,1,455>>, <<457,457,1,455>>,
      <<459,459,1,458>>, <<460,460,1,458>>, <<462,476,2,461>>, <<477,477,1,398>>,
      <<479,495,2,478>>, <<498,498,1,497>>, <<499,499,1,497>>, <<501,501,1,500>>,
      <<505,543,2,504>>, <<547,563,2,546>>, <<572,572,1,571>>, <<575,576,1,11390>>,
      <<578,578,1,577>>, <<583,591,2,582>>, <<592,592,1,11375>>, <<593,593,1,11373>>,
      <<594,594,1,11376>>, <<595,595,1,385>>, <<596,596,1,390>>, <<598,599,1,393>>,
      <<601,601,1,399>>, <<603,603,1,400>>, <<604,604,1,42923>>, <<608,608,1,403>>,
      <<609,609,1,42924>>, <<611,611,1,404>>, <<613,613,1,42893>>, <<614,614,1,42922>>,
      <<616,616,1,407>>, <<617,617,1,406>>, <<618,618,1,42926>>, <<619,619,1,11362>>,
      <<620,620,1,42925>>, <<623,623,1,412>>, <<625,625,1,11374>>, <<626,626,1,413>>,
      <<629,629,1,415>>, <<637,637,1,11364>>, <<640,640,1,422>>, <<642,642,1,42949>>,
      <<643,643,1,425>>, <<647,647,1,42929>>, <<648,648,1,430>>, <<649,649,1,580>>,
      <<650,651,1,433>>, <<652,652,1,581>>, <<658,658,1,439>>, <<669,669,1,42930>>,
      <<670,670,1,42928>>, <<837,837,1,921>>, <<881,883,2,880>>, <<887,887,1,886>>,
      <<891,893,1,1021>>, <<940,940,1,902>>, <<941,943,1,904>>, <<945,961,1,913>>,
      <<962,962,1,931>>, <<963,971,1,931>>, <<972,972,1,908>>, <<973,974,1,910>>,
      <<976,976,1,914>>, <<977,977,1,920>>, <<981,981,1,934>>, <<982,982,1,928>>,
      <<983,983,1,975>>, <<985,1007,2,984>>, <<1008,1008,1,922>>, <<1009,1009,1,929>>,
      <<1010,1010,1,1017>>, <<1011,1011,1,895>>, <<1013,1013,1,917>>, <<1016,1016,1,1015>>,
      <<1019,1019,1,1018>>, <<1072,1103,1,1040>>, <<1104,1119,1,1024>>, <<1121,1153,2,1120>>,
      <<1163,1215,2,1162>>, <<1218,1230,2,1217>>, <<1231,1231,1,1216>>, <<1233,1327,2,1232>>,
      <<1377,1414,1,1329>>, <<4304,4346,1,7312>>, <<4349,4351,1,7357>>, <<5112,5117,1,5104>>,
      <<7296,7296,1,1042>>, <<7297,7297,1,1044>>, <<7298,7298,1,1054>>, <<7299,7300,1,1057>>,
      <<7301,7301,1,1058>>, <<7302,7302,1,1066>>, <<7303,7303,1,1122>>, <<7304,7304,1,42570>>,
      <<7545,7545,1,42877>>, <<7549,7549,1,11363>>, <<7566,7566,1,42950>>, <<7681,7829,2,7680>>,
      <<7835,7835,1,7776>>, <<7841,7935,2,7840>>, <<7936,7943,1,7944>>, <<7952,7957,1,7960>>,
      <<7968,7975,1,7976>>, <<7984,7991,1,7992>>, <<8000,8005,1,8008>>, <<8017,8023,2,8025>>,
      <<8032,8039,1,8040>>, <<8048,8049,1,8122>>, <<8050,8053,1,8136>>, <<8054,8055,1,8154>>,
      <<8056,8057,1,8184>>, <<8058,8059,1,8170>>, <<8060,8061,1,8186>>, <<8112,8113,1,8120>>,
      <<8126,8126,1,921>>, <<8144,8145,1,8152>>, <<8160,8161,1,8168>>, <<8165,8165,1,8172>>,
      <<8526,8526,1,8498>>, <<8560,8575,1,8544>>, <<8580,8580,1,8579>>, <<9424,9449,1,9398>>,
      <<11312,11359,1,11264>>, <<11361,11361,1,11360>>, <<11365,11365,1,570>>, <<11366,11366,1,574>>,
      <<11368,11372,2,11367>>, <<11379,11379,1,11378>>, <<11382,11382,1,11381>>, <<11393,11491,2,11392>>,
      <<11500,11502,2,11499>>, <<11507,11507,1,11506>>, <<11520,11557,1,4256>>, <<11559,11559,1,4295>>,
      <<11565,11565,1,4301>>, <<42561,42605,2,42560>>, <<42625,42651,2,42624>>, <<42787,42799,2,42786>>,
      <<42803,42863,2,42802>>, <<42874,42876,2,42873>>, <<42879,42887,2,42878>>, <<42892,42892,1,42891>>,
      <<42897,42899,2,42896>>, <<42900,42900,1,42948>>, <<42903,42921,2,42902>>, <<42933,42947,2,42932>>,
      <<42952,42954,2,42951>>, <<42961,42961,1,42960>>, <<42967,42969,2,42966>>, <<42998,42998,1,42997>>,
      <<43859,43859,1,42931>>, <<43888,43967,1,5024>>, <<65345,65370,1,65313>>, <<66600,66639,1,66560>>,
      <<66776,66811,1,66736>>, <<66967,67003,2,66928>>, <<66968,66977,1,66929>>, <<66980,66993,1,66941>>,
      <<66996,67001,1,66957>>, <<67004,67004,1,66965>>, <<68800,68850,1,68736>>, <<71872,71903,1,71840>>,
      <<93792,93823,1,93760>>, <<125218,125251,1,125184>>
    >>

\* str.upper of one character that maps to several: <<character, its upper>>
UpperSpecial ==
    <<
      <<223,<<83,83>>>>, <<329,<<700,78>>>>, <<496,<<74,780>>>>, <<912,<<921,776,769>>>>,
      <<944,<<933,776,769>>>>, <<1415,<<1333,1362>>>>, <<7830,<<72,817>>>>, <<7831,<<84,776>>>>,
      <<7832,<<87,778>>>>, <<7833,<<89,778>>>>, <<7834,<<65,702>>>>, <<8016,<<933,787>>>>,
      <<8018,<<933,787,768>>>>, <<8020,<<933,787,769>>>>, <<8022,<<933,787,834>>>>, <<8064,<<7944,921>>>>,
      <<8065,<<7945,921>>>>, <<8066,<<7946,921>>>>, <<8067,<<7947,921>>>>, <<8068,<<7948,921>>>>,
      <<8069,<<7949,921>>>>, <<8070,<<7950,921>>>>, <<8071,<<7951,921>>>>, <<8072,<<7944,921>>>>,
      <<8073,<<7945,921>>>>, <<8074,<<7946,921>>>>, <<8075,<<7947,921>>>>, <<8076,<<7948,921>>>>,
      <<8077,<<7949,921>>>>, <<8078,<<7950,921>>>>, <<8079,<<7951,921>>>>, <<8080,<<7976,921>>>>,
      <<8081,<<7977,921>>>>, <<8082,<<7978,921>>>>, <<8083,<<7979,921>>>>, <<8084,<<7980,921>>>>,
      <<8085,<<7981,921>>>>, <<8086,<<7982,921>>>>, <<8087,<<7983,921>>>>, <<8088,<<7976,921>>>>,
      <<8089,<<7977,921>>>>, <<8090,<<7978,921>>>>, <<8091,<<7979,921>>>>, <<8092,<<7980,921>>>>,
      <<8093,<<7981,921>>>>, <<8094,<<7982,921>>>>, <<8095,<<7983,921>>>>, <<8096,<<8040,921>>>>,
      <<8097,<<8041,921>>>>, <<8098,<<8042,921>>>>, <<8099,<<8043,921>>>>, <<8100,<<8044,921>>>>,
      <<8101,<<8045,921>>>>, <<8102,<<8046,921>>>>, <<8103,<<8047,921>>>>, <<8104,<<8040,921>>>>,
      <<8105,<<8041,921>>>>, <<8106,<<8042,921>>>>, <<8107,<<8043,921>>>>, <<8108,<<8044,921>>>>,
      <<8109,<<8045,921>>>>, <<8110,<<8046,921>>>>, <<8111,<<8047,921>>>>, <<8114,<<8122,921>>>>,
      <<8115,<<913,921>>>>, <<8116,<<902,921>>>>, <<8118,<<913,834>>>>, <<8119,<<913,834,921>>>>,
      <<8124,<<913,921>>>>, <<8130,<<8138,921>>>>, <<8131,<<919,921>>>>, <<8132,<<905,921>>>>,
      <<8134,<<919,834>>>>, <<8135,<<919,834,921>>>>, <<8140,<<919,921>>>>, <<8146,<<921,776,768>>>>,
      <<8147,<<921,776,769>>>>, <<8150,<<921,834>>>>, <<8151,<<921,776,834>>>>, <<8162,<<933,776,768>>>>,
      <<8163,<<933,776,769>>>>, <<8164,<<929,787>>>>, <<8166,<<933,834>>>>, <<8167,<<933,776,834>>>>,
      <<8178,<<8186,921>>>>, <<8179,<<937,921>>>>, <<8180,<<911,921>>>>, <<8182,<<937,834>>>>,
      <<8183,<<937,834,921>>>>, <<8188,<<937,921>>>>, <<64256,<<70,70>>>>, <<64257,<<70,73>>>>,
      <<64258,<<70,76>>>>, <<64259,<<70,70,73>>>>, <<64260,<<70,70,76>>>>, <<64261,<<83,84>>>>,
      <<64262,<<83,84>>>>, <<64275,<<1348,1350>>>>, <<64276,<<1348,1333>>>>, <<64277,<<1348,1339>>>>,
      <<64278,<<1358,1350>>>>, <<64279,<<1348,1341>>>>
    >>

\* c.upper() for one character c, as a string
UpperChar(c) ==
    IF c < 128
    THEN IF c \in 97..122 THEN <<c - 32>> ELSE <<c>>
    ELSE IF \E i \in DOMAIN UpperSpecial : UpperSpecial[i][1] = c
    THEN UpperSpecial[CHOOSE i \in DOMAIN UpperSpecial : UpperSpecial[i][1] = c][2]
    ELSE LET hit == {i \in DOMAIN UpperRanges :
                        /\ UpperRanges[i][1] <= c
                        /\ c <= UpperRanges[i][2]
                        /\ (c - UpperRanges[i][1]) % UpperRanges[i][3] = 0}
         IN  IF hit = {} THEN <<c>>
             ELSE LET r == UpperRanges[CHOOSE i \in hit : TRUE]
                  IN  <<r[4] + (c - r[1])>>

\* str.upper()
RECURSIVE Upper(_)
Upper(s) == IF s = <<>> THEN <<>> ELSE UpperChar(Head(s)) \o Upper(Tail(s))

\* str.strip(): drop leading and trailing whitespace
Strip(s) ==
    LET keep == {i \in DOMAIN s : s[i] \notin Whitespace}
    IN  IF keep = {} THEN <<>>
        ELSE LET lo == CHOOSE i \in keep : \A j \in keep : i <= j
                 hi == CHOOSE i \in keep : \A j \in keep : j <= i
             IN  SubSeq(s, lo, hi)

\* the substring test  sub in s
Contains(s, sub) ==
    \E i \in 0..Len(s) :
        /\ i + Len(sub) <= Len(s)
        /\ SubSeq(s, i + 1, i + Len(sub)) = sub

\* dict.get(key, default)
DictGet(d, key, default) == IF d[key].type = "absent" THEN default ELSE d[key]

----------------------------------------------------------------------------
(* Inputs *)

RawInputs ==
    { <<32,109,119,114,100,32>> (* " mwrd " *),
      <<77,87,82,68>> (* "MWRD" *),
      <<11,115,116,114,97,223,101,160>> (* "\x0bstra\xdfe\xa0" *),
      <<56448>> (* "\udc80", a lone surrogate *) }

\* the encoding and the error handler the standard streams of the process
\* may have; sys.stdin and sys.stdout share them: a UTF-8 locale, the C
\* locale in UTF-8 mode, PYTHONIOENCODING=ascii and
\* PYTHONIOENCODING=ascii:backslashreplace
StdoutSettings ==
    { [encoding |-> "utf-8", errors |-> "strict"],
      [encoding |-> "utf-8", errors |-> "surrogateescape"],
      [encoding |-> "ascii", errors |-> "strict"],
      [encoding |-> "ascii", errors |-> "backslashreplace"] }

\* An exception is given by the classes it is an instance of: its class
\* followed by the base classes, in method resolution order.
NoException == <<>>
ConnectionErrorMRO ==
    <<"ConnectionError", "OSError", "Exception", "BaseException">>
AttributeErrorMRO == <<"AttributeError", "Exception", "BaseException">>
UnicodeEncodeErrorMRO ==
    <<"UnicodeEncodeError", "UnicodeError", "ValueError", "Exception",
      "BaseException">>
\* the errors the provider raises
ProviderErrors == {ConnectionErrorMRO}

\* an answer to etf.history(period="5d"): an error, or the Close column
Closes == {[i \in 1..n |-> 10 + i] : n \in 0..MaxBars}
HistoryAnswers ==
    {[kind |-> "raise", exc |-> e, close |-> <<>>] : e \in ProviderErrors}
    \cup {[kind |-> "ok", exc |-> NoException, close |-> c] : c \in Closes}

LongNames ==
    { (* "MSCI WORLD EMERGING MARKETS FUND" *)
      <<77,83,67,73,32,87,79,82,76,68,32,69,77,69,82,71,73,78,71,32,77,65,82,75,69,84,83,32,70,85,78,68>>,
      (* "Global Bond Usa" *)
      <<71,108,111,98,97,108,32,66,111,110,100,32,85,115,97>>,
      (* "S&P 500 Emerging Bond" *)
      <<83,38,80,32,53,48,48,32,69,109,101,114,103,105,110,103,32,66,111,110,100>>,
      (* "emerging bond" *)
      <<101,109,101,114,103,105,110,103,32,98,111,110,100>>,
      (* "Emerging Mkts" *)
      <<69,109,101,114,103,105,110,103,32,77,107,116,115>>,
      (* "u\u017fa" *)
      <<117,383,97>> }

\* the currency texts the provider sends; the code does not restrict them
Currencies == { <<85,83,68>> (* "USD" *), <<63>> (* "?" *) }

\* the dictionary etf.info: each key absent, or present with a value; the
\* provider may also send a null long name.  The two entries are read
\* independently of each other (lines 38 and 39), so the records vary one
\* entry at a time
NullNameDict == [longName |-> PyNone, currency |-> PyStr(<<85,83,68>> (* "USD" *))]
InfoDicts ==
    {[longName |-> PyStr(s), currency |-> PyStr(<<85,83,68>> (* "USD" *))] :
        s \in LongNames}
    \cup [longName : {PyAbsent},
          currency : {PyAbsent} \cup {PyStr(c) : c \in Currencies}]
    \cup {NullNameDict}
EmptyDict == [longName |-> PyAbsent, currency |-> PyAbsent]

InfoAnswers ==
    {[kind |-> "raise", exc |-> e, dict |-> EmptyDict] : e \in ProviderErrors}
    \cup {[kind |-> "ok", exc |-> NoException, dict |-> d] : d \in InfoDicts}

NoResult == [pending |-> TRUE]

----------------------------------------------------------------------------
(* The code *)

\* variant: the typed line is trimmed but not uppercased
MainNormalize_StripOnly(s) == Strip(s)
\* line 68: input(...).upper().strip()
MainNormalize(s) == Strip(Upper(s))

\* lines 13-20
Candidates(t) ==
    << t \o <<46,77,73>> (* ".MI" *),
       t \o <<46,80,65>> (* ".PA" *),
       t \o <<46,68,69>> (* ".DE" *),
       t \o <<46,65,83>> (* ".AS" *),
       t \o <<46,76>> (* ".L" *),
       t >>

\* variant: iloc[0], the oldest close
LastClose_First(s) == s[1]
\* line 33: storia['Close'].iloc[-1]
LastClose(s) == s[Len(s)]

\* variant: except KeyError
OuterCatches_KeyError(e) == \E i \in DOMAIN e : e[i] = "KeyError"
\* line 61: except Exception
OuterCatches(e) == \E i \in DOMAIN e : e[i] = "Exception"

\* variant: the fallback reuses the default currency
FallbackCurrency_EUR == PyStr(<<69,85,82>> (* "EUR" *))
\* lines 41-42: the bare except of the metadata fetch
FallbackCurrency == PyStr(<<63>> (* "?" *))
\* variant: a missing currency entry gets the unknown marker
DefaultCurrency_Unknown == PyStr(<<63>> (* "?" *))
\* line 39
DefaultCurrency == PyStr(<<69,85,82>> (* "EUR" *))

CatGenerico == "Generico"
CatMondo    == "Azionario Mondo"
CatUSA      == "Azionario USA"
CatBond     == "Obbligazionario"
CatEmerging == "Emergenti"

\* variant: the EMERGING test is made first
Categoria_EmergingFirst(n) ==
    IF Contains(n, <<69,77,69,82,71,73,78,71>> (* "EMERGING" *)) THEN CatEmerging
    ELSE IF Contains(n, <<77,83,67,73,32,87,79,82,76,68>> (* "MSCI WORLD" *))
         \/ Contains(n, <<71,76,79,66,65,76>> (* "GLOBAL" *)) THEN CatMondo
    ELSE IF Contains(n, <<83,38,80,32,53,48,48>> (* "S&P 500" *))
         \/ Contains(n, <<85,83,65>> (* "USA" *)) THEN CatUSA
    ELSE IF Contains(n, <<66,79,78,68>> (* "BOND" *)) THEN CatBond
    ELSE CatGenerico

\* lines 45-50, on n = nome.upper(); the labels are the source's labels
\* without their leading pictograph
Categoria(n) ==
    IF Contains(n, <<77,83,67,73,32,87,79,82,76,68>> (* "MSCI WORLD" *))
         \/ Contains(n, <<71,76,79,66,65,76>> (* "GLOBAL" *)) THEN CatMondo
    ELSE IF Contains(n, <<83,38,80,32,53,48,48>> (* "S&P 500" *))
         \/ Contains(n, <<85,83,65>> (* "USA" *)) THEN CatUSA
    ELSE IF Contains(n, <<66,79,78,68>> (* "BOND" *)) THEN CatBond
    ELSE IF Contains(n, <<69,77,69,82,71,73,78,71>> (* "EMERGING" *)) THEN CatEmerging
    ELSE CatGenerico

\* variant: a failed candidate is tried again
NextCandidate_Retry(i) == i
\* line 24: the for loop moves to the next candidate
NextCandidate(i) == i + 1

simbolo == possibili_ticker[idx]

\* the metadata answers the provider may still give
NullNamesSent ==
    Cardinality({i \in DOMAIN info_log :
                    info_log[i].answer.dict.longName.type = "NoneType"})
InfoAnswersNow ==
    {m \in InfoAnswers :
        m.dict.longName.type = "NoneType" => NullNamesSent < MaxNullNames}

\* lines 36-42: nome and valuta from the answer m to etf.info
NomeOf(m, sym) ==
    IF m.kind = "raise" THEN PyStr(sym)
    ELSE DictGet(m.dict, "longName", PyStr(sym))
ValutaOf(m) ==
    IF m.kind = "raise" THEN FallbackCurrency
    ELSE DictGet(m.dict, "currency", DefaultCurrency)

\* line 22: the text print writes, the line feed included
ProgressLine(t) ==
    <<128270>> (* the pictograph U+1F50E *) \o <<32,67,101,114,99,111,32>> (* " Cerco " *) \o t
        \o <<32,40,109,111,100,97,108,105,116,224,32,115,105,99,117,114,97,41,46,46,46>> (* " (modalit\xe0 sicura)..." *) \o <<10>>

\* the codec enc has an encoding for the character c
Encodable(enc, c) ==
    IF enc = "ascii" THEN c < 128
    ELSE c \notin 55296..57343          \* utf-8: all but the surrogates

\* the error handler err takes over a character the codec cannot encode:
\* backslashreplace writes an escape for any character, surrogateescape
\* writes the byte back for U+DC80..U+DCFF only, strict raises
Replaced(err, c) ==
    \/ err = "backslashreplace"
    \/ err = "surrogateescape" /\ c \in 56448..56575

\* line 22: sys.stdout with codec enc and error handler err can write s
CanEncode(enc, err, s) ==
    \A i \in DOMAIN s : Encodable(enc, s[i]) \/ Replaced(err, s[i])

\* line 68: input() can return the line s when sys.stdin has codec enc and
\* error handler err: the characters the codec decodes to, and under
\* surrogateescape the surrogates U+DC80..U+DCFF of the undecodable bytes
CanDecode(enc, err, s) ==
    \A i \in DOMAIN s :
        \/ Encodable(enc, s[i])
        \/ err = "surrogateescape" /\ s[i] \in 56448..56575

\* lines 4-22: the function is entered with argument t while sys.stdout has
\* the settings io; the print of line 22 is outside every
\* try, an error of it leaves the function
Enter(t, io) ==
    /\ ticker_input' = t
    /\ possibili_ticker' = Candidates(t)
    /\ stdout' = io
    /\ IF CanEncode(io.encoding, io.errors, ProgressLine(t))
       THEN /\ idx' = 1
            /\ pc' = "loop"
            /\ exc' = exc
       ELSE /\ idx' = idx
            /\ pc' = "raised"
            /\ exc' = UnicodeEncodeErrorMRO

\* lines 61-63 for an exception e raised inside the outer try: continue with
\* the next candidate, or leave the function with e
Handle(e) ==
    IF OuterCatches(e)
    THEN /\ idx' = NextCandidate(idx)
         /\ pc' = "loop"
         /\ UNCHANGED <<result, exc>>
    ELSE /\ pc' = "raised"
         /\ exc' = e
         /\ UNCHANGED <<idx, result>>

Init ==
    /\ pc = "start"
    /\ via = "none"
    /\ raw = <<>>
    /\ ticker_input = <<>>
    /\ possibili_ticker = <<>>
    /\ idx = 0
    /\ hist_log = <<>>
    /\ info_log = <<>>
    /\ result = NoResult
    /\ exc = NoException
    /\ stdout = [encoding |-> "unset", errors |-> "unset"]

\* lines 67-69: the script is run; the line input() returns is normalised
\* and passed on
Main ==
    /\ pc = "start"
    /\ \E r \in RawInputs, io \in StdoutSettings :
        /\ CanDecode(io.encoding, io.errors, r)
        /\ raw' = r
        /\ via' = "main"
        /\ Enter(MainNormalize(r), io)
    /\ UNCHANGED <<hist_log, info_log, result>>

\* line 4: the module is imported and the function is called with r
Call ==
    /\ pc = "start"
    /\ \E r \in RawInputs, io \in StdoutSettings :
        /\ raw' = r
        /\ via' = "call"
        /\ Enter(r, io)
    /\ UNCHANGED <<hist_log, info_log, result>>

\* lines 24-63: one iteration of the for loop
TryCandidate ==
    /\ pc = "loop"
    /\ idx <= Len(possibili_ticker)
    /\ \E a \in HistoryAnswers :
        /\ hist_log' = Append(hist_log, [sym |-> simbolo, answer |-> a])
        /\ IF a.kind = "raise"
           THEN \* line 30 raised
                /\ Handle(a.exc)
                /\ UNCHANGED info_log
           ELSE IF a.close = <<>>
           THEN \* line 32: storia.empty, the loop goes on
                /\ idx' = NextCandidate(idx)
                /\ UNCHANGED <<pc, info_log, result, exc>>
           ELSE \E m \in InfoAnswersNow :
                LET prezzo == LastClose(a.close)
                    nome   == NomeOf(m, simbolo)
                    valuta == ValutaOf(m)
                IN  /\ info_log' = Append(info_log, [sym |-> simbolo, answer |-> m])
                    /\ IF nome.type # "str"
                       THEN \* line 46: None has no method upper
                            Handle(AttributeErrorMRO)
                       ELSE \* lines 46-59
                            /\ result' = [trovato |-> TRUE,
                                          simbolo |-> simbolo,
                                          prezzo  |-> prezzo,
                                          nome    |-> nome.val,
                                          cat     |-> Categoria(Upper(nome.val)),
                                          valuta  |-> valuta.val]
                            /\ pc' = "done"
                            /\ UNCHANGED <<idx, exc>>
    /\ UNCHANGED <<via, raw, ticker_input, possibili_ticker, stdout>>

\* line 65: the loop is exhausted
ReturnNotFound ==
    /\ pc = "loop"
    /\ idx > Len(possibili_ticker)
    /\ result' = [trovato |-> FALSE]
    /\ pc' = "done"
    /\ UNCHANGED <<via, raw, ticker_input, possibili_ticker, idx, hist_log,
                   info_log, exc, stdout>>

Next ==
    \/ Main
    \/ Call
    \/ TryCandidate
    \/ ReturnNotFound

Spec == Init /\ [][Next]_vars

----------------------------------------------------------------------------
(* Properties *)

Found == pc = "done" /\ result.trovato
NotFound == pc = "done" /\ ~result.trovato

\* the i-th history request was answered with a non-empty history
NonEmptyAt(i) ==
    /\ hist_log[i].answer.kind = "ok"
    /\ hist_log[i].answer.close # <<>>

\* the suffixes in the order of preference, the bare root last
Suffixes == << <<46,77,73>> (* ".MI" *), <<46,80,65>> (* ".PA" *), <<46,68,69>> (* ".DE" *), <<46,65,83>> (* ".AS" *), <<46,76>> (* ".L" *), <<>> >>

\* the number of history requests made for the k-th candidate
Requests(k) ==
    Cardinality({i \in DOMAIN hist_log : hist_log[i].sym = possibili_ticker[k]})

\* the ASCII and Latin-1 lower-case letters, and the long s
LowerSet == (97..122) \cup ((223..255) \ {247}) \cup {181, 383}

\* C1: history is requested for root.MI, root.PA, root.DE, root.AS, root.L,
\* root in exactly this order, and the lookup returns on the first candidate
\* whose history is non-empty: that candidate is the result's symbol and no
\* later candidate is queried, whatever the metadata request answers.
C1_FirstMatchWins ==
    /\ Len(hist_log) <= Len(Suffixes)
    /\ \A i \in DOMAIN hist_log :
        /\ hist_log[i].sym = ticker_input \o Suffixes[i]
        /\ NonEmptyAt(i) =>
            /\ i = Len(hist_log)
            /\ Found
            /\ result.simbolo = hist_log[i].sym

\* C2: the result is found: false if and only if no history request was
\* answered with a non-empty history, whatever the metadata request answers.
C2_NotFoundIffNoHistory ==
    pc = "done" =>
        (~result.trovato <=> ~(\E i \in DOMAIN hist_log : NonEmptyAt(i)))

\* C3: when the history of a candidate is non-empty and the metadata fetch for
\* it raises, the lookup returns found: true for that candidate, with the
\* candidate symbol as name and "?" as currency.
C3_MetadataErrorFallback ==
    \A i \in DOMAIN info_log :
        info_log[i].answer.kind = "raise" =>
            /\ i = Len(info_log)
            /\ hist_log[Len(hist_log)].sym = info_log[i].sym
            /\ NonEmptyAt(Len(hist_log))
            /\ Found
            /\ result.simbolo = info_log[i].sym
            /\ result.nome = info_log[i].sym
            /\ result.valuta = <<63>> (* "?" *)

C3_Witness ==
    /\ Found
    /\ Len(hist_log) = 3
    /\ info_log # <<>>
    /\ info_log[Len(info_log)].answer.kind = "raise"
    /\ result.nome = <<77,87,82,68,46,68,69>> (* "MWRD.DE" *)

\* C4: no failure of a candidate (an error of the history request, an
\* unknown symbol, an empty history, an error of the metadata request) is
\* raised to the caller: an exception leaves the function only from the
\* progress line, before the first candidate is requested; once the loop is
\* entered it goes on until a value is returned, and when all six history
\* requests failed or were empty the returned value is exactly {found: false}.
C4_NoExceptionEscapes ==
    /\ pc = "raised" =>
        /\ hist_log = <<>>
        /\ info_log = <<>>
        /\ exc = UnicodeEncodeErrorMRO
    /\ pc \in {"loop", "done"} => exc = NoException
    /\ pc = "loop" => idx \in 1..(Len(possibili_ticker) + 1)
    /\ pc = "done" => result # NoResult
    /\ (/\ pc = "done"
        /\ Len(hist_log) = Len(Suffixes)
        /\ \A i \in DOMAIN hist_log : ~NonEmptyAt(i))
       => result = [trovato |-> FALSE]

C4_Witness ==
    /\ pc = "done"
    /\ result = [trovato |-> FALSE]
    /\ Len(hist_log) = Len(Suffixes)
    /\ hist_log[1].answer.kind = "raise"
    /\ hist_log[2].answer.kind = "ok" /\ hist_log[2].answer.close = <<>>
    /\ \A i \in DOMAIN hist_log : ~NonEmptyAt(i)

\* C5: the category of a found result is one of the five labels, chosen on
\* the uppercased name in the order World (MSCI WORLD, GLOBAL), US (S&P 500,
\* USA), Bond (BOND), Emerging (EMERGING), Generic; the first match wins and
\* the case of the name does not matter.
C5_CategoryPriority ==
    Found =>
        LET n == Upper(result.nome)
            w == \/ Contains(n, <<77,83,67,73,32,87,79,82,76,68>> (* "MSCI WORLD" *))
                 \/ Contains(n, <<71,76,79,66,65,76>> (* "GLOBAL" *))
            u == \/ Contains(n, <<83,38,80,32,53,48,48>> (* "S&P 500" *))
                 \/ Contains(n, <<85,83,65>> (* "USA" *))
            b == Contains(n, <<66,79,78,68>> (* "BOND" *))
            e == Contains(n, <<69,77,69,82,71,73,78,71>> (* "EMERGING" *))
        IN  /\ result.cat \in {"Azionario Mondo", "Azionario USA", "Obbligazionario",
                               "Emergenti", "Generico"}
            /\ w => result.cat = "Azionario Mondo"
            /\ (~w /\ u) => result.cat = "Azionario USA"
            /\ (~w /\ ~u /\ b) => result.cat = "Obbligazionario"
            /\ (~w /\ ~u /\ ~b /\ e) => result.cat = "Emergenti"
            /\ (~w /\ ~u /\ ~b /\ ~e) => result.cat = "Generico"
            /\ result.nome = <<77,83,67,73,32,87,79,82,76,68,32,69,77,69,82,71,73,78,71,32,77,65,82,75,69,84,83,32,70,85,78,68>> (* "MSCI WORLD EMERGING MARKETS FUND" *)
                => result.cat = "Azionario Mondo"
            /\ result.nome = <<71,108,111,98,97,108,32,66,111,110,100,32,85,115,97>> (* "Global Bond Usa" *)
                => result.cat = "Azionario Mondo"
            /\ result.nome = <<83,38,80,32,53,48,48,32,69,109,101,114,103,105,110,103,32,66,111,110,100>> (* "S&P 500 Emerging Bond" *)
                => result.cat = "Azionario USA"
            /\ result.nome = <<101,109,101,114,103,105,110,103,32,98,111,110,100>> (* "emerging bond" *)
                => result.cat = "Obbligazionario"
            /\ result.nome = <<69,109,101,114,103,105,110,103,32,77,107,116,115>> (* "Emerging Mkts" *)
                => result.cat = "Emergenti"
            /\ result.nome = <<117,383,97>> (* "u\u017fa" *)
                => result.cat = "Azionario USA"
            /\ result.nome = <<77,87,82,68,46,77,73>> (* "MWRD.MI" *)
                => result.cat = "Generico"

C5_Witness ==
    /\ Found
    /\ result.nome = <<77,83,67,73,32,87,79,82,76,68,32,69,77,69,82,71,73,78,71,32,77,65,82,75,69,84,83,32,70,85,78,68>> (* "MSCI WORLD EMERGING MARKETS FUND" *)
    /\ result.cat = "Azionario Mondo"

\* the candidate list of root MWRD
MWRDCandidates ==
    << <<77,87,82,68,46,77,73>> (* "MWRD.MI" *),
       <<77,87,82,68,46,80,65>> (* "MWRD.PA" *),
       <<77,87,82,68,46,68,69>> (* "MWRD.DE" *),
       <<77,87,82,68,46,65,83>> (* "MWRD.AS" *),
       <<77,87,82,68,46,76>> (* "MWRD.L" *),
       <<77,87,82,68>> (* "MWRD" *) >>

\* the two spellings of MWRD among the inputs
MWRDSpellings == { <<32,109,119,114,100,32>> (* " mwrd " *),
       <<77,87,82,68>> (* "MWRD" *) }

\* t is in upper case and has no surrounding whitespace
IsNormalized(t) ==
    /\ \A i \in DOMAIN t : t[i] \notin LowerSet
    /\ t # <<>> => (t[1] \notin Whitespace /\ t[Len(t)] \notin Whitespace)

\* C6 as stated: the resolver normalizes its argument to upper case without
\* surrounding whitespace before building the candidates, so " mwrd " and
\* "MWRD" give the same candidate list.
C6_ResolverNormalizes ==
    pc # "start" =>
        /\ IsNormalized(ticker_input)
        /\ raw \in MWRDSpellings => possibili_ticker = MWRDCandidates
        /\ raw = <<11,115,116,114,97,223,101,160>> (* "\x0bstra\xdfe\xa0" *)
            => possibili_ticker[Len(possibili_ticker)] = <<83,84,82,65,83,83,69>> (* "STRASSE" *)

\* C6 amended: the command-line entry point normalizes the typed line before
\* it calls the resolver, so typing " mwrd " and typing "MWRD" give the same
\* candidate list; the resolver itself uses its argument as passed.
C6_MainNormalizes ==
    /\ via = "main" =>
        /\ IsNormalized(ticker_input)
        /\ raw \in MWRDSpellings => possibili_ticker = MWRDCandidates
        /\ raw = <<11,115,116,114,97,223,101,160>> (* "\x0bstra\xdfe\xa0" *)
            => possibili_ticker[Len(possibili_ticker)] = <<83,84,82,65,83,83,69>> (* "STRASSE" *)
    /\ via = "call" =>
        /\ ticker_input = raw
        /\ possibili_ticker[Len(possibili_ticker)] = raw

C6_Witness ==
    /\ via = "main"
    /\ raw = <<32,109,119,114,100,32>> (* " mwrd " *)
    /\ possibili_ticker = MWRDCandidates

\* C7: at most one metadata request is made in a lookup, and only for the
\* candidate that is returned; a lookup that returns found: false has made
\* none.
C7_AtMostOneMetadataRequest ==
    /\ Len(info_log) <= 1
    /\ info_log # <<>> => (Found /\ result.simbolo = info_log[1].sym)
    /\ NotFound => info_log = <<>>

\* C8: no retry: no candidate's history is requested twice, every candidate
\* up to the point where the lookup ends is requested exactly once, no later
\* one is requested, and at most 6 history requests are made.
C8_NoRetry ==
    /\ Len(hist_log) <= Len(Suffixes)
    /\ \A i, j \in DOMAIN hist_log : i # j => hist_log[i].sym # hist_log[j].sym
    /\ pc = "loop" =>
        \A k \in DOMAIN possibili_ticker :
            Requests(k) = IF k < idx THEN 1 ELSE 0
    /\ Found =>
        \E last \in DOMAIN possibili_ticker :
            /\ possibili_ticker[last] = result.simbolo
            /\ \A k \in DOMAIN possibili_ticker :
                Requests(k) = IF k <= last THEN 1 ELSE 0
    /\ NotFound =>
        \A k \in DOMAIN possibili_ticker : Requests(k) = 1

C8_Witness ==
    /\ Found
    /\ Len(hist_log) = Len(Suffixes)
    /\ result.simbolo = possibili_ticker[Len(Suffixes)]

\* C9: the price of a found result is the last close of the history that was
\* returned for the candidate named in the result's symbol.
C9_PriceIsLastClose ==
    Found =>
        /\ \E i \in DOMAIN hist_log : hist_log[i].sym = result.simbolo
        /\ \A i \in DOMAIN hist_log :
            hist_log[i].sym = result.simbolo =>
                /\ NonEmptyAt(i)
                /\ result.prezzo =
                       hist_log[i].answer.close[Len(hist_log[i].answer.close)]

C9_Witness ==
    /\ Found
    /\ Len(hist_log) = 3
    /\ hist_log[1].answer.kind = "raise"
    /\ hist_log[2].answer.kind = "ok" /\ hist_log[2].answer.close = <<>>
    /\ Len(hist_log[3].answer.close) = 2
    /\ result.prezzo = 12

\* C10 as stated: when the metadata request succeeds without a long-name
\* entry the name is the candidate symbol, without a currency entry the
\* currency is "EUR"; the currency is "?" if and only if the metadata request
\* raised.
C10_MetadataDefaults ==
    Found =>
        /\ info_log # <<>>
        /\ LET m == info_log[Len(info_log)].answer
           IN  /\ info_log[Len(info_log)].sym = result.simbolo
               /\ (m.kind = "ok" /\ m.dict.longName.type = "absent")
                    => result.nome = result.simbolo
               /\ (m.kind = "ok" /\ m.dict.currency.type = "absent")
                    => result.valuta = <<69,85,82>> (* "EUR" *)
               /\ result.valuta = <<63>> (* "?" *) <=> m.kind = "raise"

\* C10 amended: when the metadata request succeeds without a long-name entry
\* the name is the candidate symbol, without a currency entry the currency is
\* "EUR", and a currency entry is returned as the provider sent it; when the
\* metadata request raised the currency is "?".  A currency "?" comes from a
\* metadata request that raised or from a record whose currency entry is "?".
C10_DefaultsAndSentinel ==
    Found =>
        /\ info_log # <<>>
        /\ LET m == info_log[Len(info_log)].answer
           IN  /\ info_log[Len(info_log)].sym = result.simbolo
               /\ (m.kind = "ok" /\ m.dict.longName.type = "absent")
                    => result.nome = result.simbolo
               /\ (m.kind = "ok" /\ m.dict.currency.type = "absent")
                    => result.valuta = <<69,85,82>> (* "EUR" *)
               /\ (m.kind = "ok" /\ m.dict.currency.type = "str")
                    => result.valuta = m.dict.currency.val
               /\ m.kind = "raise" => result.valuta = <<63>> (* "?" *)
               /\ result.valuta = <<63>> (* "?" *) =>
                    \/ m.kind = "raise"
                    \/ m.kind = "ok" /\ m.dict.currency = PyStr(<<63>> (* "?" *))

C10_Witness ==
    /\ Found
    /\ info_log[Len(info_log)].answer.kind = "ok"
    /\ info_log[Len(info_log)].answer.dict = EmptyDict
    /\ result.nome = result.simbolo
    /\ result.valuta = <<69,85,82>> (* "EUR" *)

====
